---- MODULE Spec2Model ----
(***************************************************************************)
(* A model of components of the metadata catalog application:              *)
(*   - SearchManager (api/controller/search_manager.py): the in-memory     *)
(*     index, build_index and search, as two processes that may overlap;   *)
(*   - CatalogCommanderManager.get_dataset (catalog_commander_manager.py): *)
(*     the life cycle of the SQL connection of one call;                   *)
(*   - the data product routes (api/routes/data_product_routes.py):        *)
(*     every endpoint, over a DataProductsManager store;                   *)
(*   - CatalogCommanderManager's list methods over the vendor SDK;         *)
(*   - the tags validator of DataDomainRead (models/data_domains.py).      *)
(* Each component has its own specification; the variables of the other    *)
(* components stay at their initial values.                                *)
(***************************************************************************)
EXTENDS Integers, Sequences, FiniteSets, TLC

VARIABLES
    \* ---- SearchManager ----
    overlap,      \* TRUE when a search may run while build_index runs
    sourceItems,  \* the items the source managers can hold (fixed per run)
    queries,      \* the query strings clients send (fixed per run)
    lists,        \* the heap of Python list objects: id -> content
    index,        \* self.index: the id of a list object
    bpc,          \* build_index: "idle", "loop", "assign", "done", "raised"
    bi,           \* build_index: position in self.searchable_managers
    newIndex,     \* build_index: the local new_index (a list id)
    assembled,    \* history: what the managers returned in this build, in order
    calls,        \* history: get_search_index_items calls per manager, this build
    failedMgrs,   \* history: the managers whose call raised in this build
    servable,     \* history: the content of the last completed index
    spc,          \* search: "idle", "loop", "done"
    query,        \* search: the query argument
    sref,         \* search: the list object the for loop iterates
    si,           \* search: the position of the list iterator (1-based)
    results,      \* search: the local results list
    resultPos,    \* history: the index position each result was appended from
    snapshot,     \* history: the content of self.index when search read it
    \* ---- CatalogCommanderManager.get_dataset ----
    dpc,          \* "idle", "connect", "body", "finally", "returned", "raised"
    stage,        \* position in the try body after sql.connect (see Stages)
    connection,   \* the local variable `connection`: NoConn or a connection
    pending,      \* TRUE when an exception is propagating through finally
    conns,        \* every connection sql.connect has opened, oldest first
    dcalls,       \* the number of get_dataset calls started
    \* ---- data product routes ----
    store,        \* DataProductsManager: the ids of the stored products
    nextUuid,     \* the number of the next id uuid.uuid4() generates
    upc,          \* upload_data_products: "idle", "reading", "loop", "responded"
    ulevel,       \* upload: the access level the permission dependency saw,
                  \* kept until the file has been read
    ext,          \* upload: the extension of file.filename
    jsonBound,    \* upload: TRUE once the local `import json` has run
    dataList,     \* upload: data_list (its dicts get their generated ids)
    ui,           \* upload: position of the for loop in data_list
    created,      \* upload: created_products, as the ids of the products
    errors,       \* upload: the errors list
    response,     \* upload: the HTTP response
    uploaded,     \* history: the parsed file content as received
    storeBefore,  \* history: the stored ids when the upload began its work
    outcomes,     \* history: what became of each processed item
    createCalls,  \* history: the ids create_product was called with
    managerFailed, \* history: a manager call raised during this upload
    managerCalls, \* history: the manager method calls of this upload
    dupCalls,     \* history: create_product was called for an id then stored
    post,         \* create_data_product: the last request and its response
    req,          \* the other endpoints: the last request and its response
    \* ---- CatalogCommanderManager list methods ----
    lpc,          \* "idle", "listing", "returned", "raised"
    lmethod,      \* the list method called
    sdkItems,     \* what the SDK listing has to yield, in order
    failAt,       \* the item at whose fetch the SDK raises; 0 for never
    fetched,      \* the items list(...) has drawn from the SDK iterator
    sdkCalls,     \* history: SDK listing calls of this invocation
    lresult,      \* what the caller gets: a list or an exception
    \* ---- DataDomainRead.parse_stringified_list ----
    tpc,          \* "called", "done"
    tvalue,       \* the value argument
    tsource,      \* history: the list the value is the stringified form of
    tresult       \* the returned value or the exception

searchVars == <<overlap, sourceItems, queries, lists, index, bpc, bi, newIndex, assembled,
                calls, failedMgrs, servable, spc, query, sref, si, results,
                resultPos, snapshot>>

datasetVars == <<dpc, stage, connection, pending, conns, dcalls>>

routesVars == <<store, nextUuid, upc, ulevel, ext, jsonBound, dataList, ui, created,
                errors, response, uploaded, storeBefore, outcomes, createCalls,
                managerFailed, managerCalls, dupCalls, post, req>>

listVars == <<lpc, lmethod, sdkItems, failAt, fetched, sdkCalls, lresult>>

tagsVars == <<tpc, tvalue, tsource, tresult>>

vars == <<searchVars, datasetVars, routesVars, listVars, tagsVars>>

----------------------------------------------------------------------------
(* Bounds *)

\* The most items one build_index collects over all managers.
MaxIndexLen == 2

\* The most get_dataset calls of one run.
MaxDatasetCalls == 3

\* The most entries of an uploaded array.
MaxUploadLen == 2

\* The most ids uuid.uuid4() generates in one run.
MaxUuids == 2

\* The most items an SDK listing yields.
MaxListLen == 2

\* The most characters of an arbitrary string given to the tags validator.
MaxTagChars == 4

\* The most tags of a list given to the tags validator, as a list or
\* stringified.
MaxTags == 2

----------------------------------------------------------------------------
(* Python values *)

\* Optional[str]: None is <<>>, a string s is <<s>>; a string is a sequence
\* of characters.
None == <<>>
Some(s) == <<s>>

\* str.lower() on one character of the alphabet used here.
LowerChar(c) ==
    CASE c = "E" -> "e"
      [] c = "N" -> "n"
      [] c = "G" -> "g"
      [] c = "X" -> "x"
      [] OTHER -> c

\* str.lower()
Lower(s) == [i \in 1..Len(s) |-> LowerChar(s[i])]

\* str.startswith(prefix)
StartsWith(s, prefix) ==
    /\ Len(prefix) <= Len(s)
    /\ SubSeq(s, 1, Len(prefix)) = prefix

\* A tag is a string or, since the code applies str(tag), another value: here
\* a one-digit integer.
StrTag(s) == [kind |-> "str", s |-> s, n |-> 0]
IntTag(n) == [kind |-> "int", s |-> <<>>, n |-> n]

DigitChar(n) ==
    CASE n = 0 -> "0" [] n = 1 -> "1" [] n = 2 -> "2" [] n = 3 -> "3"
      [] n = 4 -> "4" [] n = 5 -> "5" [] n = 6 -> "6" [] n = 7 -> "7"
      [] n = 8 -> "8" [] OTHER -> "9"

\* str(tag)
PyStr(tag) == IF tag.kind = "str" THEN tag.s ELSE <<DigitChar(tag.n)>>

\* SearchIndexItem: title, description (Optional[str]) and tags (a list; None
\* and [] are both falsy at line 57 and are both modelled as <<>>).
Item(id, title, description, tags) ==
    [id |-> id, title |-> title, description |-> description, tags |-> tags]

----------------------------------------------------------------------------
(* SearchManager: data *)

\* self.searchable_managers, in registration order.
Managers == <<"data_products", "data_domains">>

\* The items the source managers hold when requests are served one at a time.
RichItems ==
    { Item("p1", Some(<<"E", "n", "g">>), Some(<<"x">>), <<>>),
      Item("p2", Some(<<"x", "y">>), Some(<<"E", "N", "g">>), <<>>),
      Item("d1", None, None, <<StrTag(<<"x">>), StrTag(<<"e", "N">>)>>),
      Item("d2", Some(<<"e", "n">>), Some(<<"e", "n">>),
                 <<StrTag(<<"e", "n">>), StrTag(<<"e", "n">>)>>),
      Item("t1", Some(<<"X">>), Some(<<>>), <<IntTag(7)>>),
      Item("t2", Some(<<>>), None, <<StrTag(<<>>)>>) }

\* The items the source managers hold when a search may overlap a rebuild.
FewItems ==
    { Item("p1", Some(<<"E", "n", "g">>), Some(<<"x">>), <<>>),
      Item("t1", Some(<<"X">>), Some(<<>>), <<IntTag(7)>>) }

\* The query strings of the search requests, and those sent while a search may
\* overlap a rebuild.
Queries == { <<>>, <<"e", "n">>, <<"E", "N">>, <<"x">>, <<"7">> }
FewQueries == { <<>>, <<"E", "N">>, <<"7">> }

\* All lists of at most n elements of S.
SeqsUpTo(S, n) == UNION { [1..k -> S] : k \in 0..n }

\* The list objects of the heap. A list no reference holds is freed (its slot
\* reads <<>>), so three slots serve self.index, new_index and the list a search
\* iterates.
ListIds == {"L1", "L2", "L3"}
NoList == "none"

Collect(heap, live) == [id \in ListIds |-> IF id \in live THEN heap[id] ELSE <<>>]

ManagerSet == { Managers[k] : k \in 1..Len(Managers) }

----------------------------------------------------------------------------
(* SearchManager.build_index *)

NewIndexListInPlace ==
    [ref |-> index, heap |-> [lists EXCEPT ![index] = <<>>]]

\* new_index = []  (line 27): a fresh list object, not the one self.index holds.
NewIndexList ==
    LET fresh == CHOOSE id \in ListIds : id \notin {index, sref, newIndex}
    IN  [ref |-> fresh, heap |-> [lists EXCEPT ![fresh] = <<>>]]

\* build_index up to the loop (lines 24-27).
BuildStart ==
    /\ bpc = "idle"
    /\ overlap \/ spc = "idle"
    /\ LET new == NewIndexList
       IN  /\ newIndex' = new.ref
           /\ lists' = new.heap
    /\ bpc' = "loop"
    /\ bi' = 1
    /\ assembled' = <<>>
    /\ calls' = [m \in ManagerSet |-> 0]
    /\ failedMgrs' = {}
    /\ UNCHANGED <<datasetVars, routesVars, listVars, tagsVars, overlap, sourceItems, queries, index, servable, spc, query, sref, si,
                   results, resultPos, snapshot>>

\* One loop iteration whose get_search_index_items returns `items`
\* (lines 29-33): new_index.extend(items).
BuildQueryOk ==
    /\ bpc = "loop"
    /\ bi <= Len(Managers)
    /\ \E items \in SeqsUpTo(sourceItems, MaxIndexLen - Len(assembled)) :
          /\ lists' = [lists EXCEPT ![newIndex] = @ \o items]
          /\ assembled' = assembled \o items
    /\ calls' = [calls EXCEPT ![Managers[bi]] = @ + 1]
    /\ bi' = bi + 1
    /\ UNCHANGED <<datasetVars, routesVars, listVars, tagsVars, overlap, sourceItems, queries, index, bpc, newIndex, failedMgrs, servable,
                   spc, query, sref, si, results, resultPos, snapshot>>

ManagerRaisedPropagates ==
    /\ bpc' = "raised"
    /\ UNCHANGED bi

\* except Exception (lines 34-35): the error is logged and the loop goes on.
ManagerRaised ==
    /\ bpc' = bpc
    /\ bi' = bi + 1

\* One loop iteration whose get_search_index_items raises (lines 29-35).
BuildQueryFailed ==
    /\ bpc = "loop"
    /\ bi <= Len(Managers)
    /\ calls' = [calls EXCEPT ![Managers[bi]] = @ + 1]
    /\ failedMgrs' = failedMgrs \cup {Managers[bi]}
    /\ ManagerRaised
    /\ UNCHANGED <<datasetVars, routesVars, listVars, tagsVars, overlap, sourceItems, queries, lists, index, newIndex, assembled, servable,
                   spc, query, sref, si, results, resultPos, snapshot>>

\* self.index = new_index (line 38), after the loop; the list self.index held
\* is freed unless a search still iterates it.
BuildAssign ==
    /\ bpc = "loop"
    /\ bi > Len(Managers)
    /\ index' = newIndex
    /\ newIndex' = NoList
    /\ lists' = Collect(lists, {newIndex, sref})
    /\ servable' = assembled
    /\ bpc' = "done"
    /\ UNCHANGED <<datasetVars, routesVars, listVars, tagsVars, overlap, sourceItems, queries, bi, assembled, calls, failedMgrs, spc, query,
                   sref, si, results, resultPos, snapshot>>

\* build_index returns (line 39).
BuildReturn ==
    /\ bpc = "done"
    /\ bpc' = "idle"
    /\ bi' = 1
    /\ assembled' = <<>>
    /\ calls' = [m \in ManagerSet |-> 0]
    /\ failedMgrs' = {}
    /\ UNCHANGED <<datasetVars, routesVars, listVars, tagsVars, overlap, sourceItems, queries, lists, index, newIndex, servable, spc, query,
                   sref, si, results, resultPos, snapshot>>

----------------------------------------------------------------------------
(* SearchManager.search *)

EmptyQueryIgnored(q) == FALSE

\* `not query` (line 43)
EmptyQuery(q) == q = <<>>

\* `item.title and ...`: an Optional[str] that is neither None nor "".
Truthy(opt) == opt # None /\ opt[1] # <<>>

MatchesTitleBlocks(item, ql) ==
    IF Truthy(item.title)
    THEN StartsWith(Lower(item.title[1]), ql)
    ELSE IF Truthy(item.description)
    THEN StartsWith(Lower(item.description[1]), ql)
    ELSE \E k \in 1..Len(item.tags) : StartsWith(Lower(PyStr(item.tags[k])), ql)

\* The if / elif / elif chain of lines 49-61, ql being query.lower().
Matches(item, ql) ==
    IF Truthy(item.title) /\ StartsWith(Lower(item.title[1]), ql)
    THEN TRUE
    ELSE IF Truthy(item.description) /\ StartsWith(Lower(item.description[1]), ql)
    THEN TRUE
    ELSE IF item.tags # <<>>
    THEN \E k \in 1..Len(item.tags) : StartsWith(Lower(PyStr(item.tags[k])), ql)
    ELSE FALSE

AppendedPerField(item, ql) ==
    (IF Truthy(item.title) /\ StartsWith(Lower(item.title[1]), ql)
     THEN <<item>> ELSE <<>>)
    \o (IF Truthy(item.description) /\ StartsWith(Lower(item.description[1]), ql)
        THEN <<item>> ELSE <<>>)
    \o (IF \E k \in 1..Len(item.tags) : StartsWith(Lower(PyStr(item.tags[k])), ql)
        THEN <<item>> ELSE <<>>)

\* Lines 63-65: what one loop iteration appends to results.
Appended(item, ql) == IF Matches(item, ql) THEN <<item>> ELSE <<>>

\* search up to the loop (lines 41-48): the empty query returns [] at once;
\* otherwise the for loop takes an iterator over the list self.index holds now.
SearchStart ==
    /\ spc = "idle"
    /\ overlap \/ bpc = "idle"
    /\ \E q \in queries :
          /\ query' = q
          /\ IF EmptyQuery(q)
             THEN /\ spc' = "done"
                  /\ sref' = NoList
             ELSE /\ spc' = "loop"
                  /\ sref' = index
    /\ si' = 1
    /\ results' = <<>>
    /\ resultPos' = <<>>
    /\ snapshot' = lists[index]
    /\ UNCHANGED <<datasetVars, routesVars, listVars, tagsVars, overlap, sourceItems, queries, lists, index, bpc, bi, newIndex, assembled,
                   calls, failedMgrs, servable>>

\* One iteration of the for loop (lines 48-65): the list iterator reads the
\* element at its position from the list object as it is now.
SearchStep ==
    /\ spc = "loop"
    /\ si <= Len(lists[sref])
    /\ LET app == Appended(lists[sref][si], Lower(query))
       IN  /\ results' = results \o app
           /\ resultPos' = resultPos \o [k \in 1..Len(app) |-> si]
    /\ si' = si + 1
    /\ UNCHANGED <<datasetVars, routesVars, listVars, tagsVars, overlap, sourceItems, queries, lists, index, bpc, bi, newIndex, assembled,
                   calls, failedMgrs, servable, spc, query, sref, snapshot>>

\* The iterator is exhausted: the loop ends and results is returned (line 71).
SearchExhausted ==
    /\ spc = "loop"
    /\ si > Len(lists[sref])
    /\ spc' = "done"
    /\ sref' = NoList
    /\ lists' = Collect(lists, {index, newIndex})
    /\ UNCHANGED <<datasetVars, routesVars, listVars, tagsVars, overlap, sourceItems, queries, index, bpc, bi, newIndex, assembled, calls,
                   failedMgrs, servable, query, si, results, resultPos, snapshot>>

\* The caller has taken the result.
SearchReturn ==
    /\ spc = "done"
    /\ spc' = "idle"
    /\ query' = <<>>
    /\ si' = 1
    /\ results' = <<>>
    /\ resultPos' = <<>>
    /\ snapshot' = <<>>
    /\ UNCHANGED <<datasetVars, routesVars, listVars, tagsVars, overlap, sourceItems, queries, lists, index, bpc, bi, newIndex, assembled,
                   calls, failedMgrs, servable, sref>>

----------------------------------------------------------------------------
(* SearchManager: specifications *)

\* After __init__ (lines 12-22): self.index holds what the first build_index
\* collected, any list of at most MaxIndexLen items of the sources.
\* The other components at rest.
NoListResult == [raised |-> FALSE, items |-> <<>>]

ListingAtRest ==
    /\ lpc = "idle"
    /\ lmethod = ""
    /\ sdkItems = <<>>
    /\ failAt = 0
    /\ fetched = <<>>
    /\ sdkCalls = 0
    /\ lresult = NoListResult

\* A value the tags validator takes or returns: None, a str (a sequence of
\* characters), a list of str, or a value of another type.
NoneValue == [kind |-> "none", s |-> <<>>, items |-> <<>>]
StrValue(s) == [kind |-> "str", s |-> s, items |-> <<>>]
ListValue(items) == [kind |-> "list", s |-> <<>>, items |-> items]
OtherValue == [kind |-> "other", s |-> <<>>, items |-> <<>>]

NoTagsResult == [raised |-> FALSE, value |-> NoneValue]

TagsAtRest ==
    /\ tpc = "done"
    /\ tvalue = NoneValue
    /\ tsource = NoneValue
    /\ tresult = NoTagsResult

DatasetAtRest ==
    /\ dpc = "idle"
    /\ stage = 1
    /\ connection = 0
    /\ pending = FALSE
    /\ conns = <<>>
    /\ dcalls = 0

\* A data product id: absent from the data, given in it (possibly as the empty
\* string), or generated by uuid.uuid4().
Absent == [kind |-> "absent", name |-> "", n |-> 0]
Given(name) == [kind |-> "given", name |-> name, n |-> 0]
Uuid(n) == [kind |-> "uuid", name |-> "", n |-> n]

NoResponse == [status |-> 0, products |-> <<>>, errors |-> <<>>]
NoUpload == [kind |-> "none", items |-> <<>>]
NoPost == [status |-> 0, given |-> Absent, valid |-> FALSE, id |-> Absent,
           createCalled |-> FALSE, createFailed |-> FALSE, level |-> "NONE",
           stored |-> FALSE, before |-> {}, calls |-> 0]
NoReq == [route |-> "", level |-> "NONE", pathId |-> Absent, bodyId |-> Absent,
          stored |-> FALSE, before |-> {}, status |-> 0, calls |-> 0,
          returned |-> "", changed |-> FALSE]

RoutesAtRest ==
    /\ store = {}
    /\ nextUuid = 1
    /\ upc = "idle"
    /\ ulevel = "NONE"
    /\ ext = "json"
    /\ jsonBound = FALSE
    /\ dataList = <<>>
    /\ ui = 1
    /\ created = <<>>
    /\ errors = <<>>
    /\ response = NoResponse
    /\ uploaded = NoUpload
    /\ storeBefore = {}
    /\ outcomes = <<>>
    /\ createCalls = <<>>
    /\ managerFailed = FALSE
    /\ managerCalls = 0
    /\ dupCalls = FALSE
    /\ post = NoPost
    /\ req = NoReq

SearchAtRest ==
    /\ overlap = FALSE
    /\ sourceItems = {}
    /\ queries = {}
    /\ lists = [id \in ListIds |-> <<>>]
    /\ servable = <<>>
    /\ index = "L1"
    /\ bpc = "idle"
    /\ bi = 1
    /\ newIndex = NoList
    /\ assembled = <<>>
    /\ calls = [m \in ManagerSet |-> 0]
    /\ failedMgrs = {}
    /\ spc = "idle"
    /\ query = <<>>
    /\ sref = NoList
    /\ si = 1
    /\ results = <<>>
    /\ resultPos = <<>>
    /\ snapshot = <<>>

InitSearchWith(ov, items, qs) ==
    /\ DatasetAtRest
    /\ RoutesAtRest
    /\ ListingAtRest
    /\ TagsAtRest
    /\ overlap = ov
    /\ sourceItems = items
    /\ queries = qs
    /\ \E first \in SeqsUpTo(items, MaxIndexLen) :
          /\ lists = [id \in ListIds |-> IF id = "L1" THEN first ELSE <<>>]
          /\ servable = first
    /\ index = "L1"
    /\ bpc = "idle"
    /\ bi = 1
    /\ newIndex = NoList
    /\ assembled = <<>>
    /\ calls = [m \in ManagerSet |-> 0]
    /\ failedMgrs = {}
    /\ spc = "idle"
    /\ query = <<>>
    /\ sref = NoList
    /\ si = 1
    /\ results = <<>>
    /\ resultPos = <<>>
    /\ snapshot = <<>>

NextSearch ==
    \/ BuildStart
    \/ BuildQueryOk
    \/ BuildQueryFailed
    \/ BuildAssign
    \/ BuildReturn
    \/ SearchStart
    \/ SearchStep
    \/ SearchExhausted
    \/ SearchReturn

\* Requests served one at a time, over the rich item set.
InitSearch == InitSearchWith(FALSE, RichItems, Queries)
SpecSearch == InitSearch /\ [][NextSearch]_vars

\* A search may overlap a rebuild (no lock on the read path).
InitOverlap == InitSearchWith(TRUE, FewItems, FewQueries)
SpecOverlap == InitOverlap /\ [][NextSearch]_vars

----------------------------------------------------------------------------
(* SearchManager: properties *)

\* What the specification says an item must satisfy to be returned: one of
\* title, description or a tag starts with the query, lower-cased.
TitleHit(item, q) ==
    item.title # None /\ StartsWith(Lower(item.title[1]), Lower(q))
DescriptionHit(item, q) ==
    item.description # None /\ StartsWith(Lower(item.description[1]), Lower(q))
TagHit(item, q) ==
    \E k \in 1..Len(item.tags) : StartsWith(Lower(PyStr(item.tags[k])), Lower(q))
ClaimMatch(item, q) == TitleHit(item, q) \/ DescriptionHit(item, q) \/ TagHit(item, q)

Expected(content, q) == SelectSeq(content, LAMBDA it : ClaimMatch(it, q))

\* C1: for a non-empty query, search returns exactly the index entries whose
\* lower-cased title, description or some tag starts with the lower-cased query,
\* in every index content.
C1_SearchReturnsPrefixMatches ==
    (spc = "done" /\ query # <<>>) => results = Expected(snapshot, query)

\* C1 witness: a finished search that returned an entry through its description
\* although its non-empty title does not match, and left another entry out.
C1_Witness ==
    /\ spc = "done"
    /\ query = <<"e", "n">>
    /\ \E k \in 1..Len(results) :
          /\ results[k].title # None
          /\ results[k].title[1] # <<>>
          /\ ~TitleHit(results[k], query)
          /\ DescriptionHit(results[k], query)
    /\ Len(results) < Len(snapshot)

\* C2: search with the empty query returns the empty list, whatever the index.
C2_EmptyQueryReturnsNothing ==
    (spc = "done" /\ query = <<>>) => results = <<>>

\* C2 witness: an empty-query search has finished over an index that holds an
\* entry with an empty title and an empty tag.
C2_Witness ==
    /\ spc = "done"
    /\ query = <<>>
    /\ \E k \in 1..Len(snapshot) :
          /\ snapshot[k].title = Some(<<>>)
          /\ snapshot[k].tags = <<StrTag(<<>>)>>

\* C3: the result is a subsequence of the index: the results come from strictly
\* increasing index positions (so each entry at most once, in index order) and
\* are never more than the index holds.
C3_ResultIsSubsequence ==
    spc \in {"loop", "done"} =>
        /\ Len(resultPos) = Len(results)
        /\ Len(results) <= Len(snapshot)
        /\ \A k \in 1..Len(results) :
              /\ resultPos[k] \in 1..Len(snapshot)
              /\ results[k] = snapshot[resultPos[k]]
        /\ \A j, k \in 1..Len(resultPos) : j < k => resultPos[j] < resultPos[k]

\* C3 witness: a finished search returned, once, an entry whose title,
\* description and two tags all match, followed by another entry.
C3_Witness ==
    /\ spc = "done"
    /\ Len(results) = 2
    /\ TitleHit(results[1], query)
    /\ DescriptionHit(results[1], query)
    /\ Len(results[1].tags) = 2
    /\ \A k \in 1..2 : StartsWith(Lower(PyStr(results[1].tags[k])), Lower(query))
    /\ results[2] # results[1]

\* C4: build_index never raises because of a source manager; every manager,
\* failing or not, is queried exactly once; the index after the build is the
\* concatenation, in registration order, of what the non-failing managers
\* returned, with nothing of the previous index.
C4_BuildSkipsFailingManagers ==
    /\ bpc # "raised"
    /\ bpc = "loop" =>
          \A k \in 1..Len(Managers) :
              calls[Managers[k]] = (IF k < bi THEN 1 ELSE 0)
    /\ bpc = "done" =>
          /\ \A m \in ManagerSet : calls[m] = 1
          /\ lists[index] = assembled

\* C4 witness: a build has completed in which the first manager failed and the
\* second returned items.
C4_Witness ==
    /\ bpc = "done"
    /\ failedMgrs = {Managers[1]}
    /\ assembled # <<>>
    /\ lists[index] = assembled

\* C5: a search that overlaps a rebuild evaluates its query against one complete
\* index: self.index always holds a completed index, which is not modified while
\* the next one is assembled, the list a search iterates does not change under
\* it, and its result is the result over the index it read.
C5_SearchSeesWholeIndex ==
    /\ lists[index] = servable
    /\ spc = "loop" =>
          /\ lists[sref] = snapshot
          /\ results = Expected(SubSeq(snapshot, 1, si - 1), query)
    /\ (spc = "done" /\ query # <<>>) => results = Expected(snapshot, query)

\* C5 witness: a search has finished with results over the old index after a
\* rebuild that started before it finished has replaced the index.
C5_Witness ==
    /\ spc = "done"
    /\ query # <<>>
    /\ results # <<>>
    /\ bpc = "done"
    /\ snapshot # servable

----------------------------------------------------------------------------
(* CatalogCommanderManager.get_dataset *)

\* `connection = None`; an opened connection is its position in conns.
NoConn == 0

\* The statements of the try body after sql.connect, each of which may raise:
\* connection.cursor() (line 170), cursor.execute (line 178),
\* cursor.fetchall_arrow() (line 179), the conversion to rows (lines 182-208).
Stages == <<"cursor", "execute", "fetch", "convert">>

\* The stages that call a method of the connection or of its cursor.
UsesConnection(st) == st \in {"cursor", "execute", "fetch"}

\* connection = None (line 162), entering the try.
DatasetCall ==
    /\ dpc = "idle"
    /\ dcalls < MaxDatasetCalls
    /\ dcalls' = dcalls + 1
    /\ dpc' = "connect"
    /\ connection' = NoConn
    /\ pending' = FALSE
    /\ stage' = 1
    /\ UNCHANGED <<searchVars, routesVars, listVars, tagsVars, conns>>

\* sql.connect returns a new connection (lines 165-169).
ConnectOk ==
    /\ dpc = "connect"
    /\ conns' = Append(conns, [owner |-> dcalls, closeCalls |-> 0,
                                closeFailed |-> FALSE, usedBy |-> {dcalls}])
    /\ connection' = Len(conns) + 1
    /\ dpc' = "body"
    /\ UNCHANGED <<searchVars, routesVars, listVars, tagsVars, stage, pending, dcalls>>

\* sql.connect, or reading the client configuration for it, raises: connection
\* is still None when the finally clause runs.
ConnectFails ==
    /\ dpc = "connect"
    /\ pending' = TRUE
    /\ dpc' = "finally"
    /\ UNCHANGED <<searchVars, routesVars, listVars, tagsVars, stage, connection, conns, dcalls>>

\* One statement of the try body completes; after the last one, `return result`
\* (line 211) enters the finally clause.
StageOk ==
    /\ dpc = "body"
    /\ conns' = IF UsesConnection(Stages[stage])
                THEN [conns EXCEPT ![connection].usedBy = @ \cup {dcalls}]
                ELSE conns
    /\ IF stage < Len(Stages)
       THEN /\ stage' = stage + 1
            /\ dpc' = "body"
       ELSE /\ stage' = stage
            /\ dpc' = "finally"
    /\ UNCHANGED <<searchVars, routesVars, listVars, tagsVars, connection, pending, dcalls>>

\* One statement of the try body raises: the exception enters the finally clause.
StageFails ==
    /\ dpc = "body"
    /\ conns' = IF UsesConnection(Stages[stage])
                THEN [conns EXCEPT ![connection].usedBy = @ \cup {dcalls}]
                ELSE conns
    /\ pending' = TRUE
    /\ dpc' = "finally"
    /\ UNCHANGED <<searchVars, routesVars, listVars, tagsVars, stage, connection, dcalls>>

CloseOnSuccessOnly == connection # NoConn /\ ~pending

\* `if connection:` (line 214)
CloseNeeded == connection # NoConn

\* The finally clause (lines 213-219): close() is called on an opened
\* connection; an error of close() is logged and swallowed, so the call then
\* returns its result or lets the pending exception go on.
Finally ==
    /\ dpc = "finally"
    /\ IF CloseNeeded
       THEN \E closeRaises \in BOOLEAN :
               conns' = [conns EXCEPT ![connection].closeCalls = @ + 1,
                                      ![connection].closeFailed = closeRaises,
                                      ![connection].usedBy = @ \cup {dcalls}]
       ELSE conns' = conns
    /\ dpc' = IF pending THEN "raised" ELSE "returned"
    /\ UNCHANGED <<searchVars, routesVars, listVars, tagsVars, stage, connection, pending, dcalls>>

\* The call has exited; its locals are gone.
DatasetExit ==
    /\ dpc \in {"returned", "raised"}
    /\ dpc' = "idle"
    /\ connection' = NoConn
    /\ pending' = FALSE
    /\ stage' = 1
    /\ UNCHANGED <<searchVars, routesVars, listVars, tagsVars, conns, dcalls>>

InitDataset ==
    /\ DatasetAtRest
    /\ RoutesAtRest
    /\ SearchAtRest
    /\ ListingAtRest
    /\ TagsAtRest

NextDataset ==
    \/ DatasetCall
    \/ ConnectOk
    \/ ConnectFails
    \/ StageOk
    \/ StageFails
    \/ Finally
    \/ DatasetExit

SpecDataset == InitDataset /\ [][NextDataset]_vars

\* C6: whenever get_dataset opened its SQL connection, close has been called on
\* it exactly once when the call exits, by return or by exception; no earlier
\* call has left a connection unclosed, and a connection is used only by the
\* call that opened it.
C6_ConnectionClosedOnce ==
    /\ \A c \in 1..Len(conns) :
          /\ conns[c].usedBy = {conns[c].owner}
          /\ conns[c].closeCalls <= 1
          /\ (conns[c].owner < dcalls \/ dpc \in {"idle", "returned", "raised"})
                => conns[c].closeCalls = 1
    /\ dpc \in {"returned", "raised"} =>
          (connection # NoConn => conns[connection].closeCalls = 1)

\* C6 witness: a call that opened a connection has exited by an exception
\* raised after the query ran, an earlier call having returned a result.
C6_Witness ==
    /\ dpc = "raised"
    /\ connection # NoConn
    /\ Stages[stage] = "fetch"
    /\ conns[connection].closeCalls = 1
    /\ conns[connection].closeFailed
    /\ Len(conns) = 2

----------------------------------------------------------------------------
(* CatalogCommanderManager: the list methods *)

ListMethods == {"list_catalogs", "list_schemas", "list_tables", "list_views",
                "list_functions"}

\* What an SDK listing yields: an object with a name; isView stands for
\* `hasattr(t, 'table_type') and t.table_type == 'VIEW'`.
SdkObjects == [name : {"x", "y"}, isView : BOOLEAN]

\* The list comprehension of each method: one dict per object, list_views
\* keeping the views only (lines 34-40, 59-65, 84-90, 109-117, 139-145).
RECURSIVE Reshape(_, _)
Reshape(method, objs) ==
    IF objs = <<>> THEN <<>>
    ELSE LET o == objs[1]
             rest == Reshape(method, Tail(objs))
             type == CASE method = "list_catalogs" -> "catalog"
                       [] method = "list_schemas" -> "schema"
                       [] method = "list_tables" -> IF o.isView THEN "view" ELSE "table"
                       [] method = "list_views" -> "view"
                       [] method = "list_functions" -> "function"
         IN  IF method = "list_views" /\ ~o.isView THEN rest
             ELSE <<[name |-> o.name, type |-> type]>> \o rest

ReturnsFetched(method, got) == [raised |-> FALSE, items |-> Reshape(method, got)]

\* An exception out of list(self.client.X.list(...)): list_schemas and
\* list_tables have no try and let it pass (lines 57, 82); list_catalogs,
\* list_views and list_functions log it and `raise` (lines 44-46, 121-123,
\* 149-151). The local list of the method is gone either way.
Propagates(method, got) == [raised |-> TRUE, items |-> <<>>]

\* A list method is called: it evaluates self.client.X.list(...) once (lines
\* 31, 57, 82, 108, 137) and hands the iterator to list(...).
ListCall ==
    /\ lpc = "idle"
    /\ \E method \in ListMethods, objs \in SeqsUpTo(SdkObjects, MaxListLen) :
          \E f \in 0..(Len(objs) + 1) :
              /\ lmethod' = method
              /\ sdkItems' = objs
              /\ failAt' = f
    /\ lpc' = "listing"
    /\ fetched' = <<>>
    /\ sdkCalls' = 1
    /\ lresult' = NoListResult
    /\ UNCHANGED <<searchVars, datasetVars, routesVars, tagsVars>>

\* list(...) draws the next object from the SDK iterator.
ListFetch ==
    /\ lpc = "listing"
    /\ Len(fetched) < Len(sdkItems)
    /\ failAt # Len(fetched) + 1
    /\ fetched' = Append(fetched, sdkItems[Len(fetched) + 1])
    /\ UNCHANGED <<searchVars, datasetVars, routesVars, tagsVars, lpc, lmethod,
                   sdkItems, failAt, sdkCalls, lresult>>

\* The SDK raises, at the call or while a later page is fetched.
ListFails ==
    /\ lpc = "listing"
    /\ failAt = Len(fetched) + 1
    /\ lresult' = Propagates(lmethod, fetched)
    /\ lpc' = "raised"
    /\ UNCHANGED <<searchVars, datasetVars, routesVars, tagsVars, lmethod, sdkItems,
                   failAt, fetched, sdkCalls>>

\* The iterator is exhausted: the objects are reshaped and returned.
ListReturn ==
    /\ lpc = "listing"
    /\ Len(fetched) = Len(sdkItems)
    /\ failAt = 0
    /\ lresult' = ReturnsFetched(lmethod, fetched)
    /\ lpc' = "returned"
    /\ UNCHANGED <<searchVars, datasetVars, routesVars, tagsVars, lmethod, sdkItems,
                   failAt, fetched, sdkCalls>>

\* The caller has the list or the exception; the locals of the call are gone.
ListExit ==
    /\ lpc \in {"returned", "raised"}
    /\ lpc' = "idle"
    /\ lmethod' = ""
    /\ sdkItems' = <<>>
    /\ failAt' = 0
    /\ fetched' = <<>>
    /\ sdkCalls' = 0
    /\ lresult' = NoListResult
    /\ UNCHANGED <<searchVars, datasetVars, routesVars, tagsVars>>

InitListing ==
    /\ SearchAtRest
    /\ DatasetAtRest
    /\ RoutesAtRest
    /\ ListingAtRest
    /\ TagsAtRest

NextListing ==
    \/ ListCall
    \/ ListFetch
    \/ ListFails
    \/ ListReturn
    \/ ListExit

SpecListing == InitListing /\ [][NextListing]_vars

\* The names of a sequence of objects or of result entries.
NamesOf(xs) == [k \in 1..Len(xs) |-> xs[k].name]

\* C16: each list method makes exactly one SDK listing call per invocation;
\* when the listing fails, at the call or midway, the caller gets the
\* exception and no list, and the SDK is not called again; when it succeeds
\* the caller gets one entry per listed object (per view for list_views).
C16_OneSdkCallNoPartialList ==
    /\ lpc # "idle" => sdkCalls = 1
    /\ lpc = "raised" =>
          /\ failAt # 0
          /\ lresult.raised
          /\ lresult.items = <<>>
    /\ lpc = "returned" =>
          /\ failAt = 0
          /\ ~lresult.raised
          /\ lmethod # "list_views" => NamesOf(lresult.items) = NamesOf(sdkItems)
          /\ lmethod = "list_views" =>
                Len(lresult.items) =
                    Cardinality({ k \in 1..Len(sdkItems) : sdkItems[k].isView })

\* C16 witness: list_schemas, which has no try block, failed after the first
\* of two objects had been fetched.
C16_Witness ==
    /\ lpc = "raised"
    /\ lmethod = "list_schemas"
    /\ Len(sdkItems) = 2
    /\ Len(fetched) = 1
    /\ lresult.raised

----------------------------------------------------------------------------
(* DataDomainRead.parse_stringified_list (models/data_domains.py) *)

\* The characters of the strings given to the validator. No JSON literal
\* (true, false, null, NaN, Infinity) can be written with them.
Chars == {"[", "]", "'", "\"", ",", " ", "a", "b", "1"}

\* str.replace(old, new) for one-character old and new.
Replace(s, old, new) == [k \in 1..Len(s) |-> IF s[k] = old THEN new ELSE s[k]]

KeepQuotes(s) == s

\* value.replace("'", '"') (line 67)
ReplaceQuotes(s) == Replace(s, "'", "\"")

\* A value json.loads produces from these characters: a str, an int or a list.
JStr(s) == [t |-> "str", s |-> s, items |-> <<>>]
JNum == [t |-> "int", s |-> <<>>, items |-> <<>>]
JList(items) == [t |-> "list", s |-> <<>>, items |-> items]

\* The outcome of scanning one JSON value: the value and the position after
\* it, or a JSONDecodeError.
JsonError == [ok |-> FALSE, val |-> JNum, next |-> 0]
JsonOk(val, next) == [ok |-> TRUE, val |-> val, next |-> next]

\* JSON whitespace is skipped between the tokens.
RECURSIVE SkipWs(_, _)
SkipWs(s, i) == IF i <= Len(s) /\ s[i] = " " THEN SkipWs(s, i + 1) ELSE i

\* A string, from the position after its opening double quote: every character
\* up to the next double quote (the alphabet has no backslash).
RECURSIVE ScanString(_, _, _)
ScanString(s, i, acc) ==
    IF i > Len(s) THEN JsonError
    ELSE IF s[i] = "\"" THEN JsonOk(JStr(acc), i + 1)
    ELSE ScanString(s, i + 1, Append(acc, s[i]))

\* A number: a run of digits.
RECURSIVE ScanNumber(_, _)
ScanNumber(s, i) == IF i <= Len(s) /\ s[i] = "1" THEN ScanNumber(s, i + 1) ELSE i

\* One JSON value starting at position i, and the elements of an array from
\* the first character of an element on.
RECURSIVE ScanValue(_, _), ScanElements(_, _, _)
ScanValue(s, i) ==
    IF i > Len(s) THEN JsonError
    ELSE IF s[i] = "\"" THEN ScanString(s, i + 1, <<>>)
    ELSE IF s[i] = "1" THEN JsonOk(JNum, ScanNumber(s, i))
    ELSE IF s[i] = "["
    THEN LET j == SkipWs(s, i + 1)
         IN  IF j <= Len(s) /\ s[j] = "]" THEN JsonOk(JList(<<>>), j + 1)
             ELSE ScanElements(s, j, <<>>)
    ELSE JsonError

ScanElements(s, i, acc) ==
    LET v == ScanValue(s, i)
    IN  IF ~v.ok THEN JsonError
        ELSE LET j == SkipWs(s, v.next)
             IN  IF j > Len(s) THEN JsonError
                 ELSE IF s[j] = "," THEN ScanElements(s, SkipWs(s, j + 1),
                                                      Append(acc, v.val))
                 ELSE IF s[j] = "]" THEN JsonOk(JList(Append(acc, v.val)), j + 1)
                 ELSE JsonError

\* json.loads(s): one value between optional whitespace, and nothing after it.
JsonLoads(s) ==
    LET v == ScanValue(s, SkipWs(s, 1))
    IN  IF ~v.ok THEN JsonError
        ELSE IF SkipWs(s, v.next) <= Len(s) THEN JsonError
        ELSE v

TagsReturned(v) == [raised |-> FALSE, value |-> v]
TagsRaised == [raised |-> TRUE, value |-> NoneValue]

\* parse_stringified_list(cls, value) (lines 61-90).
ParseStringifiedList(value) ==
    IF value.kind = "none" THEN TagsReturned(NoneValue)               \* lines 62-63
    ELSE IF value.kind = "str"
    THEN LET parsed == JsonLoads(ReplaceQuotes(value.s))              \* line 67
         IN  IF ~parsed.ok
             THEN TagsReturned(ListValue(<<>>))                       \* lines 76, 83
             ELSE IF parsed.val.t # "list"
             THEN TagsReturned(ListValue(<<>>))                       \* lines 68-69, 83
             ELSE IF \E k \in 1..Len(parsed.val.items) :
                        parsed.val.items[k].t # "str"
             THEN TagsReturned(ListValue(<<>>))                       \* lines 71-72, 83
             ELSE TagsReturned(ListValue(
                      [k \in 1..Len(parsed.val.items) |->
                          parsed.val.items[k].s]))                    \* line 75
    ELSE IF value.kind = "list" THEN TagsReturned(value)              \* lines 85-86
    ELSE TagsRaised                                                   \* line 88

\* Tags without a quote character, and the lists of them.
PlainTags == { <<"a">>, <<"b">>, <<"a", " ", "b">>, <<"1">>, <<>>, <<"[", "a", "]">>,
               <<",">> }
PlainLists == SeqsUpTo(PlainTags, MaxTags)

\* Tags that contain an apostrophe or a double quote, and the lists of tags
\* at least one of which does.
QuotedTags == { <<"a", "'", "b">>, <<"a", "\"", "b">>, <<"'", ",", "'">> }
QuotedLists == SeqsUpTo(PlainTags \cup QuotedTags, MaxTags) \ PlainLists

\* str(L) for a list L of such tags, the form of "['a', 'b']"; with the double
\* quote as q, the form json.dumps(L) gives.
RECURSIVE Stringified(_, _)
Stringified(L, q) ==
    IF L = <<>> THEN <<>>
    ELSE <<q>> \o L[1] \o <<q>>
         \o (IF Len(L) > 1 THEN <<",", " ">> ELSE <<>>)
         \o Stringified(Tail(L), q)

ListString(L, q) == <<"[">> \o Stringified(L, q) \o <<"]">>

\* The values the validator is called with, each with the list it was
\* stringified from (None when it was not): None, a value of another type,
\* lists, every short string, and the stringified forms of lists.
TagInput(v, L) == [value |-> v, source |-> L]

TagInputs ==
    { TagInput(v, NoneValue) : v \in {NoneValue, OtherValue} }
    \cup { TagInput(ListValue(L), NoneValue) : L \in PlainLists }
    \cup { TagInput(StrValue(s), NoneValue) : s \in SeqsUpTo(Chars, MaxTagChars) }
    \cup { TagInput(StrValue(ListString(L, q)), ListValue(L)) :
               L \in PlainLists, q \in {"'", "\""} }
    \cup { TagInput(StrValue(ListString(L, "'")), ListValue(L)) : L \in QuotedLists }

\* The validator runs on the value.
Validate ==
    /\ tpc = "called"
    /\ tresult' = ParseStringifiedList(tvalue)
    /\ tpc' = "done"
    /\ UNCHANGED <<searchVars, datasetVars, routesVars, listVars, tvalue, tsource>>

InitTags ==
    /\ SearchAtRest
    /\ DatasetAtRest
    /\ RoutesAtRest
    /\ ListingAtRest
    /\ tpc = "called"
    /\ \E in \in TagInputs :
          /\ tvalue = in.value
          /\ tsource = in.source
    /\ tresult = NoTagsResult

NextTags == Validate

SpecTags == InitTags /\ [][NextTags]_vars

\* What "a parsable list of strings" is, read off the characters one by one:
\* between optional blanks a bracketed, comma-separated sequence of quoted
\* strings, either quote character opening and closing a string.
RECURSIVE Recognise(_, _, _, _, _)
Recognise(s, i, st, items, cur) ==
    IF i > Len(s) THEN [ok |-> st = "closed", items |-> items]
    ELSE LET c == s[i]
             quote == c \in {"'", "\""}
             fail == [ok |-> FALSE, items |-> <<>>]
         IN  CASE st = "start" ->
                    IF c = " " THEN Recognise(s, i + 1, "start", items, cur)
                    ELSE IF c = "[" THEN Recognise(s, i + 1, "open", items, cur)
                    ELSE fail
               [] st = "open" ->
                    IF c = " " THEN Recognise(s, i + 1, "open", items, cur)
                    ELSE IF quote THEN Recognise(s, i + 1, "string", items, <<>>)
                    ELSE IF c = "]" THEN Recognise(s, i + 1, "closed", items, cur)
                    ELSE fail
               [] st = "string" ->
                    IF quote THEN Recognise(s, i + 1, "after", Append(items, cur), <<>>)
                    ELSE Recognise(s, i + 1, "string", items, Append(cur, c))
               [] st = "after" ->
                    IF c = " " THEN Recognise(s, i + 1, "after", items, cur)
                    ELSE IF c = "," THEN Recognise(s, i + 1, "comma", items, cur)
                    ELSE IF c = "]" THEN Recognise(s, i + 1, "closed", items, cur)
                    ELSE fail
               [] st = "comma" ->
                    IF c = " " THEN Recognise(s, i + 1, "comma", items, cur)
                    ELSE IF quote THEN Recognise(s, i + 1, "string", items, <<>>)
                    ELSE fail
               [] st = "closed" ->
                    IF c = " " THEN Recognise(s, i + 1, "closed", items, cur)
                    ELSE fail

ParsableList(s) == Recognise(s, 1, "start", <<>>, <<>>)

C21_TagsRoundTrip ==
    ( /\ tpc = "done"
      /\ tsource.kind = "list"
      /\ tvalue = StrValue(ListString(tsource.items, "'")) )
    => tresult = TagsReturned(tsource)

----------------------------------------------------------------------------
(* Data product routes: data *)

\* The ids request bodies carry.
GivenIds == { Given("a"), Given("b"), Given("c") }

\* `not product_id`: the id is absent (None) or the empty string.
Falsy(id) == id = Absent \/ id = Given("")

\* An entry of the uploaded content: a dict (with its id, and whether it is a
\* valid DataProduct once it has an id) or anything else.
NonDict == [isDict |-> FALSE, id |-> Absent, valid |-> FALSE]
Dicts == [isDict : {TRUE}, id : GivenIds \cup {Absent, Given("")}, valid : BOOLEAN]
Entries == Dicts \cup {NonDict}

\* The extension of the uploaded file's name.
Extensions == {"yaml", "json", "yml", "JSON", "txt"}

\* What the file content parses to: a parse error, a scalar, one object, or an
\* array of entries.
Contents ==
    { [kind |-> "malformed", items |-> <<>>], [kind |-> "scalar", items |-> <<>>] }
    \cup { [kind |-> "object", items |-> <<d>>] : d \in Dicts }
    \cup { [kind |-> "array", items |-> a] : a \in SeqsUpTo(Entries, MaxUploadLen) }

\* The entries that make the handler generate an id.
Idless(items) == { k \in 1..Len(items) : items[k].isDict /\ Falsy(items[k].id) }

----------------------------------------------------------------------------
(* DataProductsManager and the DataProduct model, which the routes call *)

\* manager.get_product(id): the stored product, or None.
GetProduct(id) == id \in store

\* manager.create_product(data): stores the product under the id of data.
CreateProduct(id) == store \cup {id}

\* DataProduct(**data): validation, for which the id is a required field.
Validates(d) == d.valid /\ d.id # Absent

----------------------------------------------------------------------------
(* Authorization and exception handling of the routes *)

\* FeatureAccessLevel (api.common.features), lowest first.
Levels == {"NONE", "READ_ONLY", "READ_WRITE", "ADMIN"}

LevelRank(level) ==
    CASE level = "NONE" -> 0
      [] level = "READ_ONLY" -> 1
      [] level = "READ_WRITE" -> 2
      [] level = "ADMIN" -> 3

\* PermissionChecker('data-products', required), called for a user of the
\* given level: the dependency passes, or raises and the handler never runs.
Permits(level, required) == LevelRank(level) >= LevelRank(required)

\* The endpoints, by the names of their handlers.
StaticGets == {"get_data_product_statuses", "get_data_product_archetypes",
               "get_data_product_owners", "get_data_products"}

RequiredLevelDeleteAsWrite(route) ==
    IF route \in StaticGets \cup {"get_data_product"} THEN "READ_ONLY" ELSE "READ_WRITE"

\* The level each handler declares in its Depends(PermissionChecker(...)).
RequiredLevel(route) ==
    CASE route = "get_data_product_statuses" -> "READ_ONLY"            \* line 61
      [] route = "get_data_product_archetypes" -> "READ_ONLY"          \* line 76
      [] route = "get_data_product_owners" -> "READ_ONLY"              \* line 91
      [] route = "upload_data_products" -> "READ_WRITE"                \* line 107
      [] route = "get_data_products" -> "READ_ONLY"                    \* line 203
      [] route = "create_data_product" -> "READ_WRITE"                 \* line 220
      [] route = "get_data_product" -> "READ_ONLY"                     \* line 264
      [] route = "update_data_product" -> "READ_WRITE"                 \* line 283
      [] route = "delete_data_product" -> "ADMIN"                      \* line 315
      [] route = "create_genie_space_from_products" -> "READ_WRITE"    \* line 341

\* isinstance(exc, cls) for the exceptions raised in the handlers: each of
\* HTTPException, ValueError and RuntimeError derives from Exception, and none
\* of them from another.
IsA(exc, cls) == cls = exc \/ cls = "Exception"

\* The except clauses of get_data_product (lines 272-276), in order, for an
\* exception raised in its try block: the status of the response.
GetExcept(exc, status) ==
    IF IsA(exc, "ValueError") THEN 404
    ELSE IF IsA(exc, "Exception") THEN 500
    ELSE status

\* The except clauses of update_data_product (lines 301-309).
UpdateExcept(exc, status) ==
    IF IsA(exc, "ValueError") THEN 400
    ELSE IF IsA(exc, "HTTPException") THEN status
    ELSE IF IsA(exc, "Exception") THEN 500
    ELSE status

\* The except clauses of delete_data_product (lines 327-332).
DeleteExcept(exc, status) ==
    IF IsA(exc, "HTTPException") THEN status
    ELSE IF IsA(exc, "Exception") THEN 500
    ELSE status

\* The except clauses of create_data_product (lines 248-256).
PostExcept(exc, status) ==
    IF IsA(exc, "HTTPException") THEN status
    ELSE IF IsA(exc, "Exception") THEN 500
    ELSE status

\* The except clauses of create_genie_space_from_products (lines 354-359).
GenieExcept(exc, status) ==
    IF IsA(exc, "RuntimeError") THEN 500
    ELSE IF IsA(exc, "Exception") THEN 500
    ELSE status

----------------------------------------------------------------------------
(* upload_data_products *)

\* The except clauses of lines 186-196, for an exception raised in the try
\* block: the status of the response. Python evaluates the clauses in order;
\* `json` is a local name of the function, bound only by the import of the
\* .json branch (line 118), so evaluating the second clause without it raises
\* UnboundLocalError, which no clause of this try handles: the server answers
\* that unhandled exception with 500.
ExceptClauses(exc, status) ==
    IF exc = "YAMLError" THEN 400
    ELSE IF ~jsonBound THEN 500
    ELSE IF exc = "JSONDecodeError" THEN 400
    ELSE IF exc = "HTTPException" THEN status
    ELSE 500

\* An HTTPException raised in the try block, as the response the client gets.
Raised(status, errs) ==
    LET got == ExceptClauses("HTTPException", status)
    IN  [status |-> got, products |-> <<>>,
         errors |-> IF got = status THEN errs ELSE <<>>]

AcceptedFileAny(e) == TRUE

\* file.filename.endswith('.yaml') or file.filename.endswith('.json') (line 110)
AcceptedFile(e) == e \in {"yaml", "json"}

\* The request arrives (lines 103-111): the permission dependency, then the
\* file-type gate, both ahead of the try block; an accepted request goes on
\* to `await file.read()`, where other requests may be served.
UploadArrive ==
    /\ upc = "idle"
    /\ post = NoPost
    /\ req = NoReq
    /\ \E level \in Levels, e \in Extensions :
          /\ ulevel' = level
          /\ ext' = e
          /\ IF ~Permits(level, RequiredLevel("upload_data_products"))
             THEN /\ response' = [status |-> 403, products |-> <<>>, errors |-> <<>>]
                  /\ upc' = "responded"
             ELSE IF ~AcceptedFile(e)
             THEN /\ response' = [status |-> 400, products |-> <<>>, errors |-> <<>>]
                  /\ upc' = "responded"
             ELSE /\ response' = NoResponse
                  /\ upc' = "reading"
    /\ managerCalls' = 0
    /\ UNCHANGED <<searchVars, datasetVars, listVars, tagsVars, store, nextUuid, jsonBound, dataList, ui,
                   created, errors, uploaded, storeBefore, outcomes, createCalls,
                   managerFailed, dupCalls, post, req>>

\* Lines 113-129: the file has been read; parsing it and normalising the
\* content to data_list. From here to the response the handler has no await.
UploadReceive ==
    /\ upc = "reading"
    /\ post = NoPost
    /\ req = NoReq
    /\ ext' = ext
    /\ ulevel' = "NONE"
    /\ \E c \in Contents :
          /\ Cardinality(Idless(c.items)) <= MaxUuids + 1 - nextUuid
          /\ uploaded' = c
          /\ jsonBound' = (ext # "yaml")
          /\ IF c.kind = "malformed"
             THEN /\ response' =
                       [status |-> ExceptClauses(IF ext = "yaml" THEN "YAMLError"
                                                 ELSE "JSONDecodeError", 0)',
                        products |-> <<>>, errors |-> <<>>]
                  /\ upc' = "responded"
                  /\ dataList' = <<>>
             ELSE IF c.kind = "scalar"
             THEN /\ response' = Raised(400, <<>>)'
                  /\ upc' = "responded"
                  /\ dataList' = <<>>
             ELSE /\ response' = NoResponse
                  /\ upc' = "loop"
                  /\ dataList' = c.items
    /\ ui' = 1
    /\ created' = <<>>
    /\ errors' = <<>>
    /\ outcomes' = <<>>
    /\ createCalls' = <<>>
    /\ managerFailed' = FALSE
    /\ storeBefore' = store
    /\ UNCHANGED <<searchVars, datasetVars, listVars, tagsVars, store, nextUuid, managerCalls,
                   dupCalls, post, req>>

NeedsIdOnlyWhenAbsent(d) == d.id = Absent

\* `if not product_id_in_data` (line 143)
NeedsId(d) == Falsy(d.id)

\* product_data['id'] = generated_id (line 145)
UploadWithId(d, id) == [d EXCEPT !.id = id]

PrependCreated(cs, p) == <<p>> \o cs

\* created_products.append(created_product) (line 163)
AppendCreated(cs, p) == Append(cs, p)

UploadExistsNever(pid) == FALSE

\* `product_id and manager.get_product(product_id)` (line 151)
UploadExists(pid) == ~Falsy(pid) /\ GetProduct(pid)

NonDictIgnored(errs) == errs

\* errors.append({"error": "Item is not a dictionary ..."}) (line 136)
NonDictError(errs) == Append(errs, [id |-> Absent, error |-> "non_dict"])

\* One iteration of the for loop (lines 134-171).
UploadItem ==
    /\ upc = "loop"
    /\ ui <= Len(dataList)
    /\ LET d == dataList[ui]
           gen == d.isDict /\ NeedsId(d)
           pid == IF gen THEN Uuid(nextUuid) ELSE d.id
           d2 == IF gen THEN UploadWithId(d, pid) ELSE d
           lookups == IF Falsy(pid) THEN 0 ELSE 1
       IN  /\ dataList' = [dataList EXCEPT ![ui] = d2]
           /\ nextUuid' = IF gen THEN nextUuid + 1 ELSE nextUuid
           /\ IF ~d.isDict
              THEN \* lines 135-137
                   /\ errors' = NonDictError(errors)
                   /\ outcomes' = Append(outcomes, [kind |-> "non_dict", id |-> Absent])
                   /\ UNCHANGED <<store, created, createCalls, managerFailed,
                                  managerCalls, dupCalls>>
              ELSE IF UploadExists(pid)
              THEN \* lines 151-153
                   /\ errors' = Append(errors, [id |-> pid, error |-> "exists"])
                   /\ outcomes' = Append(outcomes, [kind |-> "exists", id |-> pid])
                   /\ managerCalls' = managerCalls + lookups
                   /\ UNCHANGED <<store, created, createCalls, managerFailed, dupCalls>>
              ELSE IF ~Validates(d2)
              THEN \* lines 157, 165-168
                   /\ errors' = Append(errors, [id |-> pid, error |-> "validation"])
                   /\ outcomes' = Append(outcomes, [kind |-> "validation", id |-> pid])
                   /\ managerCalls' = managerCalls + lookups
                   /\ UNCHANGED <<store, created, createCalls, managerFailed, dupCalls>>
              ELSE \E createFails \in BOOLEAN :
                   /\ createCalls' = Append(createCalls, pid)
                   /\ managerCalls' = managerCalls + lookups + 1
                   /\ dupCalls' = (dupCalls \/ pid \in store)
                   /\ IF createFails
                      THEN \* lines 162, 169-171
                           /\ errors' = Append(errors, [id |-> pid, error |-> "creation"])
                           /\ outcomes' = Append(outcomes, [kind |-> "creation", id |-> pid])
                           /\ managerFailed' = TRUE
                           /\ UNCHANGED <<store, created>>
                      ELSE \* lines 162-163
                           /\ store' = CreateProduct(pid)
                           /\ created' = AppendCreated(created, pid)
                           /\ outcomes' = Append(outcomes, [kind |-> "created", id |-> pid])
                           /\ UNCHANGED <<errors, managerFailed>>
    /\ ui' = ui + 1
    /\ UNCHANGED <<searchVars, datasetVars, listVars, tagsVars, upc, ulevel, ext, jsonBound, response,
                   uploaded, storeBefore, post, req>>

\* After the loop (lines 173-196): with errors an HTTPException(422) is raised
\* in the try block and passes the except clauses; without, the created
\* products are returned with 201.
UploadRespond ==
    /\ upc = "loop"
    /\ ui > Len(dataList)
    /\ response' = IF errors # <<>>
                   THEN Raised(422, errors)
                   ELSE [status |-> 201, products |-> created, errors |-> <<>>]
    /\ upc' = "responded"
    /\ UNCHANGED <<searchVars, datasetVars, listVars, tagsVars, store, nextUuid, ulevel, ext, jsonBound,
                   dataList, ui, created, errors, uploaded, storeBefore, outcomes,
                   createCalls, managerFailed, managerCalls, dupCalls, post, req>>

\* The response is sent; the locals of the call are gone.
UploadDone ==
    /\ upc = "responded"
    /\ upc' = "idle"
    /\ ulevel' = "NONE"
    /\ ext' = "json"
    /\ jsonBound' = FALSE
    /\ dataList' = <<>>
    /\ ui' = 1
    /\ created' = <<>>
    /\ errors' = <<>>
    /\ response' = NoResponse
    /\ uploaded' = NoUpload
    /\ storeBefore' = {}
    /\ outcomes' = <<>>
    /\ createCalls' = <<>>
    /\ managerFailed' = FALSE
    /\ managerCalls' = 0
    /\ UNCHANGED <<searchVars, datasetVars, listVars, tagsVars, store, nextUuid, dupCalls, post, req>>

----------------------------------------------------------------------------
(* create_data_product *)

\* payload['id'] = str(uuid.uuid4()) (line 232)
PostWithId(id) == id

PostExistsNever(id) == FALSE

\* `product_id and manager.get_product(product_id)` (line 228)
PostExists(id) == ~Falsy(id) /\ GetProduct(id)

\* POST /api/data-products (lines 216-256), a handler without an await: it
\* runs from the permission dependency to the response in one piece, also
\* while an upload waits for its file.
PostCreate ==
    /\ upc \in {"idle", "reading"}
    /\ post = NoPost
    /\ req = NoReq
    /\ \E level \in Levels, d \in Dicts, createFails \in BOOLEAN :
          LET arrived == [NoPost EXCEPT !.given = d.id, !.valid = d.valid,
                                        !.id = d.id, !.level = level,
                                        !.stored = (d.id \in store),
                                        !.before = store]
              lookups == IF Falsy(d.id) THEN 0 ELSE 1
          IN  IF ~Permits(level, RequiredLevel("create_data_product"))
              THEN /\ post' = [arrived EXCEPT !.status = 403]
                   /\ UNCHANGED <<store, nextUuid, dupCalls>>
              ELSE
              /\ Falsy(d.id) => nextUuid <= MaxUuids
              /\ IF PostExists(d.id)
                 THEN \* lines 228-229
                      /\ post' = [arrived EXCEPT
                                      !.status = PostExcept("HTTPException", 409),
                                      !.calls = lookups]
                      /\ UNCHANGED <<store, nextUuid, dupCalls>>
                 ELSE LET id == IF Falsy(d.id) THEN PostWithId(Uuid(nextUuid)) ELSE d.id
                          d2 == [d EXCEPT !.id = id]
                      IN  /\ nextUuid' = IF Falsy(d.id) THEN nextUuid + 1 ELSE nextUuid
                          /\ IF ~Validates(d2)
                             THEN \* lines 237-241
                                  /\ post' = [arrived EXCEPT
                                                  !.status = PostExcept("HTTPException", 422),
                                                  !.id = id, !.calls = lookups]
                                  /\ UNCHANGED <<store, dupCalls>>
                             ELSE /\ dupCalls' = (dupCalls \/ id \in store)
                                  /\ IF createFails
                                     THEN \* lines 243, 253-256
                                          /\ post' = [arrived EXCEPT
                                                          !.status = PostExcept("Exception", 0),
                                                          !.id = id, !.calls = lookups + 1,
                                                          !.createCalled = TRUE,
                                                          !.createFailed = TRUE]
                                          /\ UNCHANGED store
                                     ELSE \* lines 243-246
                                          /\ post' = [arrived EXCEPT
                                                          !.status = 201,
                                                          !.id = id, !.calls = lookups + 1,
                                                          !.createCalled = TRUE]
                                          /\ store' = CreateProduct(id)
    /\ UNCHANGED <<searchVars, datasetVars, listVars, tagsVars, upc, ulevel, ext, jsonBound, dataList, ui,
                   created, errors, response, uploaded, storeBefore, outcomes,
                   createCalls, managerFailed, managerCalls, req>>

\* The response is sent.
PostDone ==
    /\ post # NoPost
    /\ post' = NoPost
    /\ UNCHANGED <<searchVars, datasetVars, listVars, tagsVars, store, nextUuid, upc, ulevel, ext,
                   jsonBound, dataList, ui, created, errors, response, uploaded,
                   storeBefore, outcomes, createCalls, managerFailed, managerCalls,
                   dupCalls, req>>

----------------------------------------------------------------------------
(* The other endpoints: each handler runs in one piece *)

\* The ids a path or a validated body can carry.
PathIds == GivenIds \cup { Uuid(n) : n \in 1..MaxUuids }

\* manager.update_product(id, data): the updated product, or None when no
\* product has the id. The set of stored ids stays as it is.
UpdateProduct(id) == id \in store

\* manager.delete_product(id): removes the product; False when none has the id.
DeleteProduct(id) == store \ {id}

\* A request can be taken when no other handler is between two awaits.
ReqArrives ==
    /\ upc \in {"idle", "reading"}
    /\ post = NoPost
    /\ req = NoReq

Arrived(route, level, pathId, bodyId) ==
    [NoReq EXCEPT !.route = route, !.level = level, !.pathId = pathId,
                  !.bodyId = bodyId, !.stored = (pathId \in store),
                  !.before = store]

\* The permission dependency raised: the handler body does not run.
Denied(r) == [r EXCEPT !.status = 403]

\* The four GET endpoints without a path parameter (lines 58-101, 200-214):
\* one manager call, any exception answered with 500.
StaticGet ==
    /\ ReqArrives
    /\ \E route \in StaticGets, level \in Levels, out \in {"ok", "Exception"} :
          LET r == Arrived(route, level, Absent, Absent)
          IN  req' = IF ~Permits(level, RequiredLevel(route)) THEN Denied(r)
                     ELSE [r EXCEPT !.status = IF out = "ok" THEN 200 ELSE 500,
                                    !.calls = 1, !.returned = out]
    /\ UNCHANGED <<searchVars, datasetVars, listVars, tagsVars, store, nextUuid, upc, ulevel, ext,
                   jsonBound, dataList, ui, created, errors, response, uploaded,
                   storeBefore, outcomes, createCalls, managerFailed, managerCalls,
                   dupCalls, post>>

\* GET /api/data-products/{product_id} (lines 260-276).
GetDataProduct ==
    /\ ReqArrives
    /\ \E level \in Levels, id \in PathIds, out \in {"ok", "ValueError", "Exception"} :
          LET r == Arrived("get_data_product", level, id, Absent)
          IN  req' = IF ~Permits(level, RequiredLevel("get_data_product"))
                     THEN Denied(r)
                     ELSE IF out # "ok"
                     THEN [r EXCEPT !.status = GetExcept(out, 0), !.calls = 1,
                                    !.returned = out]
                     ELSE IF ~GetProduct(id)
                     THEN \* lines 269-270
                          [r EXCEPT !.status = GetExcept("HTTPException", 404),
                                    !.calls = 1, !.returned = "nothing"]
                     ELSE [r EXCEPT !.status = 200, !.calls = 1, !.returned = "value"]
    /\ UNCHANGED <<searchVars, datasetVars, listVars, tagsVars, store, nextUuid, upc, ulevel, ext,
                   jsonBound, dataList, ui, created, errors, response, uploaded,
                   storeBefore, outcomes, createCalls, managerFailed, managerCalls,
                   dupCalls, post>>

IdMismatchNever(pathId, bodyId) == FALSE

\* product_id != product_data.id (line 286)
IdMismatch(pathId, bodyId) == pathId # bodyId

\* PUT /api/data-products/{product_id} (lines 278-309).
UpdateDataProduct ==
    /\ ReqArrives
    /\ \E level \in Levels, id \in PathIds, body \in PathIds,
          out \in {"ok", "ValueError", "Exception"} :
          LET r == Arrived("update_data_product", level, id, body)
          IN  req' = IF ~Permits(level, RequiredLevel("update_data_product"))
                     THEN Denied(r)
                     ELSE IF IdMismatch(id, body)
                     THEN \* lines 286-287, ahead of the try block
                          [r EXCEPT !.status = 400]
                     ELSE IF out # "ok"
                     THEN [r EXCEPT !.status = UpdateExcept(out, 0), !.calls = 1,
                                    !.returned = out]
                     ELSE IF ~UpdateProduct(id)
                     THEN \* lines 295-297
                          [r EXCEPT !.status = UpdateExcept("HTTPException", 404),
                                    !.calls = 1, !.returned = "nothing"]
                     ELSE [r EXCEPT !.status = 200, !.calls = 1,
                                    !.returned = "value", !.changed = TRUE]
    /\ UNCHANGED <<searchVars, datasetVars, listVars, tagsVars, store, nextUuid, upc, ulevel, ext,
                   jsonBound, dataList, ui, created, errors, response, uploaded,
                   storeBefore, outcomes, createCalls, managerFailed, managerCalls,
                   dupCalls, post>>

\* DELETE /api/data-products/{product_id} (lines 311-332).
DeleteDataProduct ==
    /\ ReqArrives
    /\ \E level \in Levels, id \in PathIds, out \in {"ok", "Exception"} :
          LET r == Arrived("delete_data_product", level, id, Absent)
          IN  IF ~Permits(level, RequiredLevel("delete_data_product"))
              THEN req' = Denied(r) /\ UNCHANGED store
              ELSE IF out # "ok"
              THEN /\ req' = [r EXCEPT !.status = DeleteExcept(out, 0), !.calls = 1,
                                       !.returned = out]
                   /\ UNCHANGED store
              ELSE IF id \notin store
              THEN \* lines 321-323
                   /\ req' = [r EXCEPT !.status = DeleteExcept("HTTPException", 404),
                                       !.calls = 1, !.returned = "nothing"]
                   /\ UNCHANGED store
              ELSE /\ req' = [r EXCEPT !.status = 204, !.calls = 1,
                                       !.returned = "value", !.changed = TRUE]
                   /\ store' = DeleteProduct(id)
    /\ UNCHANGED <<searchVars, datasetVars, listVars, tagsVars, nextUuid, upc, ulevel, ext,
                   jsonBound, dataList, ui, created, errors, response, uploaded,
                   storeBefore, outcomes, createCalls, managerFailed, managerCalls,
                   dupCalls, post>>

\* POST /api/data-products/genie-space (lines 335-359).
CreateGenieSpace ==
    /\ ReqArrives
    /\ \E level \in Levels, noIds \in BOOLEAN,
          out \in {"ok", "RuntimeError", "Exception"} :
          LET r == Arrived("create_genie_space_from_products", level, Absent, Absent)
          IN  req' = IF ~Permits(level, RequiredLevel("create_genie_space_from_products"))
                     THEN Denied(r)
                     ELSE IF noIds
                     THEN \* lines 346-347, ahead of the try block
                          [r EXCEPT !.status = 400]
                     ELSE [r EXCEPT !.status = IF out = "ok" THEN 202
                                                ELSE GenieExcept(out, 0),
                                    !.calls = 1, !.returned = out]
    /\ UNCHANGED <<searchVars, datasetVars, listVars, tagsVars, store, nextUuid, upc, ulevel, ext,
                   jsonBound, dataList, ui, created, errors, response, uploaded,
                   storeBefore, outcomes, createCalls, managerFailed, managerCalls,
                   dupCalls, post>>

\* The response is sent.
ReqDone ==
    /\ req # NoReq
    /\ req' = NoReq
    /\ UNCHANGED <<searchVars, datasetVars, listVars, tagsVars, store, nextUuid, upc, ulevel, ext,
                   jsonBound, dataList, ui, created, errors, response, uploaded,
                   storeBefore, outcomes, createCalls, managerFailed, managerCalls,
                   dupCalls, post>>

InitRoutes ==
    /\ SearchAtRest
    /\ DatasetAtRest
    /\ RoutesAtRest
    /\ ListingAtRest
    /\ TagsAtRest

NextRoutes ==
    \/ UploadArrive
    \/ UploadReceive
    \/ UploadItem
    \/ UploadRespond
    \/ UploadDone
    \/ PostCreate
    \/ PostDone
    \/ StaticGet
    \/ GetDataProduct
    \/ UpdateDataProduct
    \/ DeleteDataProduct
    \/ CreateGenieSpace
    \/ ReqDone

SpecRoutes == InitRoutes /\ [][NextRoutes]_vars

----------------------------------------------------------------------------
(* Data product routes: properties *)

\* The upload has been answered for a file with an accepted extension.
UploadAnswered == upc = "responded" /\ ext \in {"yaml", "json"}

\* The ids of the entries of a list of dicts.
IdsOf(items) == [k \in 1..Len(items) |-> items[k].id]

\* Every entry is a valid data product object carrying an explicit id.
AllValidWithIds(items) ==
    \A k \in 1..Len(items) :
        items[k].isDict /\ items[k].valid /\ ~Falsy(items[k].id)

\* C7: an upload of two valid data product objects with the same explicit id,
\* not stored beforehand, calls create_product once for that id, reports one
\* "already exists" error for it, and is answered 422 with that error.
C7_DuplicateIdInUpload ==
    ( /\ UploadAnswered
      /\ uploaded.kind = "array"
      /\ Len(uploaded.items) = 2
      /\ AllValidWithIds(uploaded.items)
      /\ uploaded.items[1].id = uploaded.items[2].id
      /\ uploaded.items[1].id \notin storeBefore
      /\ ~managerFailed )
    => /\ createCalls = <<uploaded.items[1].id>>
       /\ errors = <<[id |-> uploaded.items[1].id, error |-> "exists"]>>
       /\ response.status = 422
       /\ response.errors = errors

\* C8: an upload of a JSON array of N valid data product objects with pairwise
\* distinct ids, none stored beforehand, calls create_product N times, returns
\* the N created products in upload order and is answered 201 without errors.
C8_ArrayOfValidProductsCreated ==
    ( /\ UploadAnswered
      /\ uploaded.kind = "array"
      /\ AllValidWithIds(uploaded.items)
      /\ \A j, k \in 1..Len(uploaded.items) :
            j # k => uploaded.items[j].id # uploaded.items[k].id
      /\ \A k \in 1..Len(uploaded.items) : uploaded.items[k].id \notin storeBefore
      /\ ~managerFailed )
    => /\ createCalls = IdsOf(uploaded.items)
       /\ response = [status |-> 201, products |-> IdsOf(uploaded.items),
                      errors |-> <<>>]
       /\ \A k \in 1..Len(uploaded.items) : uploaded.items[k].id \in store

\* C8 witness: a .json upload of an array of two valid objects with distinct
\* ids was answered 201.
C8_Witness ==
    /\ upc = "responded"
    /\ ext = "json"
    /\ uploaded.kind = "array"
    /\ Len(uploaded.items) = 2
    /\ AllValidWithIds(uploaded.items)
    /\ uploaded.items[1].id # uploaded.items[2].id
    /\ response.status = 201
    /\ Len(response.products) = 2

\* C9: for an uploaded array in a .yaml or a .json file, every non-dict entry
\* is skipped with an error entry, every valid entry whose id is not stored yet
\* is created, and as soon as one entry produced an error the response is 422
\* with the error list, for both file types.
C9_PartialSuccessIs422 ==
    ( UploadAnswered /\ uploaded.kind = "array" )
    => /\ \A k \in 1..Len(uploaded.items) :
             /\ ~uploaded.items[k].isDict =>
                   /\ outcomes[k].kind = "non_dict"
                   /\ \E e \in 1..Len(errors) : errors[e].error = "non_dict"
             /\ ( /\ uploaded.items[k].isDict
                  /\ uploaded.items[k].valid
                  /\ outcomes[k].kind \notin {"exists", "creation"} )
                   => outcomes[k].kind = "created" /\ outcomes[k].id \in store
       /\ errors # <<>> =>
             /\ response.status = 422
             /\ response.errors = errors

\* C10 (upload): every processed object that came without an id, absent or
\* empty, carries a freshly generated id, is not reported as existing, and, if
\* otherwise valid, is created under that id unless create_product itself
\* raised; an upload of nothing but such valid objects is answered 201.
C10_UploadGeneratesId ==
    upc \in {"loop", "responded"} =>
        /\ \A k \in 1..Len(outcomes) :
              (uploaded.items[k].isDict /\ Falsy(uploaded.items[k].id)) =>
                  /\ dataList[k].id.kind = "uuid"
                  /\ dataList[k].id \notin storeBefore
                  /\ outcomes[k].id = dataList[k].id
                  /\ outcomes[k].kind # "exists"
                  /\ (uploaded.items[k].valid /\ outcomes[k].kind # "creation")
                        => /\ outcomes[k].kind = "created"
                           /\ dataList[k].id \in store
        /\ ( /\ upc = "responded"
             /\ uploaded.kind \in {"object", "array"}
             /\ ext \in {"yaml", "json"}
             /\ ~managerFailed
             /\ \A k \in 1..Len(uploaded.items) :
                   /\ uploaded.items[k].isDict
                   /\ uploaded.items[k].valid
                   /\ Falsy(uploaded.items[k].id) )
              => response.status = 201

\* C10 (POST): a payload without an id, sent by a user who may write, gets a
\* generated id; if otherwise valid it is created under that id with 201 unless
\* create_product raised, and it is never answered 409.
C10_PostGeneratesId ==
    (post # NoPost /\ Permits(post.level, "READ_WRITE") /\ Falsy(post.given)) =>
        /\ post.id.kind = "uuid"
        /\ post.status # 409
        /\ (post.valid /\ ~post.createFailed) =>
              /\ post.status = 201
              /\ post.createCalled
              /\ post.id \in store

\* C10: a data product that comes without an id, by upload or by POST, gets a
\* fresh generated id written into its data before validation and, if otherwise
\* valid, is created under it; it is not rejected for the missing id.
C10_MissingIdIsGenerated == C10_UploadGeneratesId /\ C10_PostGeneratesId

\* C10 witness: an upload of one object without an id key and one with an empty
\* id was answered 201, both created under generated ids.
C10_Witness ==
    /\ upc = "responded"
    /\ Len(uploaded.items) = 2
    /\ uploaded.items[1] = [isDict |-> TRUE, id |-> Absent, valid |-> TRUE]
    /\ uploaded.items[2] = [isDict |-> TRUE, id |-> Given(""), valid |-> TRUE]
    /\ response.status = 201
    /\ \A k \in 1..2 : response.products[k].kind = "uuid"
    /\ response.products[1] # response.products[2]
    /\ \A k \in 1..2 : response.products[k] \in store

\* C11: a POST whose payload carries an id that is already stored is answered
\* 409, without a create_product call and with the stored products as before.
C11_PostOfStoredIdIs409 ==
    ( /\ post # NoPost
      /\ Permits(post.level, "READ_WRITE")
      /\ ~Falsy(post.given)
      /\ post.given \in post.before )
    => /\ post.status = 409
       /\ ~post.createCalled
       /\ store = post.before

\* C11 witness: a valid payload with the stored id "a" was answered 409.
C11_Witness ==
    /\ post.status = 409
    /\ post.given = Given("a")
    /\ post.valid
    /\ post.before = {Given("a"), Given("b")}

\* C12: a request for an id that is not stored, for which the manager returned
\* nothing, is answered 404 by GET, PUT and DELETE alike.
C12_MissingIdIs404 ==
    ( /\ req.route \in {"get_data_product", "update_data_product",
                        "delete_data_product"}
      /\ req.returned = "nothing" )
    => req.status = 404

\* C13: a PUT whose path id differs from the id in its body is answered 400
\* and update_product is not called, whether or not either id is stored.
C13_PutIdMismatchIs400 ==
    ( /\ req.route = "update_data_product"
      /\ Permits(req.level, "READ_WRITE")
      /\ req.pathId # req.bodyId )
    => /\ req.status = 400
       /\ req.calls = 0
       /\ ~req.changed
       /\ store = req.before

\* C13 witness: a PUT to a stored id with another stored id in the body was
\* answered 400.
C13_Witness ==
    /\ req.route = "update_data_product"
    /\ req.status = 400
    /\ req.pathId = Given("a")
    /\ req.bodyId = Given("b")
    /\ {Given("a"), Given("b")} \subseteq store

\* C14: over every interleaving of POST and upload requests, create_product is
\* never called for an id that is stored at that moment: the ids an upload
\* passed to it were not stored when the upload began its work or were
\* rejected by the manager, the products it created are pairwise distinct, and
\* the id of a POST that reached create_product was not stored.
C14_IdsStayUnique ==
    /\ ~dupCalls
    /\ \A j, k \in 1..Len(created) : j # k => created[j] # created[k]
    /\ \A k \in 1..Len(created) : created[k] \notin storeBefore
    /\ post.createCalled => post.id \notin post.before

\* C14 witness: while an upload waited for its file, a POST created the
\* product "a"; the upload finds that product stored when it goes on.
C14_Witness ==
    /\ upc = "reading"
    /\ post.status = 201
    /\ post.createCalled
    /\ post.id = Given("a")
    /\ Given("a") \in store

\* C17: an upload whose filename ends in neither .yaml nor .json, from a user
\* the permission check lets through, never gets as far as reading the file:
\* it is answered 400 with nothing read or parsed and no manager call made.
C17_BadFileTypeIs400 ==
    ( /\ upc # "idle"
      /\ response.status # 403
      /\ ext \notin {"yaml", "json"} )
    => /\ upc = "responded"
       /\ response.status = 400
       /\ uploaded = NoUpload
       /\ managerCalls = 0
       /\ createCalls = <<>>

\* C17 witness: an upload of a .yml file by a user who may write was refused.
C17_Witness ==
    /\ upc = "responded"
    /\ ext = "yml"
    /\ ulevel = "READ_WRITE"
    /\ response.status = 400

\* C18: an upload of a .yaml or .json file whose content parses to a bare
\* scalar is answered 400, for both file types, without a manager call.
C18_ScalarContentIs400 ==
    ( UploadAnswered /\ uploaded.kind = "scalar" )
    => /\ response.status = 400
       /\ managerCalls = 0

\* C19: every processed upload item is counted exactly once, as created or as
\* an error: during and after the loop created + errors is the number of items
\* processed, after it the number of items; what was created stays stored
\* whatever the later items did and whatever the response is.
C19_EveryItemCreatedOrError ==
    ( upc \in {"loop", "responded"} /\ uploaded.kind \in {"object", "array"} )
    => /\ Len(created) + Len(errors) = ui - 1
       /\ Len(outcomes) = ui - 1
       /\ upc = "responded" => Len(created) + Len(errors) = Len(uploaded.items)
       /\ Cardinality({ k \in 1..Len(outcomes) : outcomes[k].kind = "created" })
             = Len(created)
       /\ \A k \in 1..Len(created) : created[k] \in store

\* C19 witness: an upload of a valid object followed by a non-dict entry was
\* answered with an error status; the first product is stored.
C19_Witness ==
    /\ upc = "responded"
    /\ uploaded.kind = "array"
    /\ Len(uploaded.items) = 2
    /\ uploaded.items[1] = [isDict |-> TRUE, id |-> Given("a"), valid |-> TRUE]
    /\ ~uploaded.items[2].isDict
    /\ response.status # 201
    /\ created = <<Given("a")>>
    /\ Len(errors) = 1
    /\ Given("a") \in store

\* The access level the endpoints are said to require.
ClaimLevel(route) ==
    IF route = "delete_data_product" THEN "ADMIN"
    ELSE IF route \in {"create_data_product", "update_data_product",
                       "upload_data_products", "create_genie_space_from_products"}
    THEN "READ_WRITE"
    ELSE "READ_ONLY"

Below(level, route) == LevelRank(level) < LevelRank(ClaimLevel(route))

\* C20: on every endpoint the permission check comes before the manager: a
\* request of a user below the required level (ADMIN for DELETE, READ_WRITE
\* for POST, PUT, upload and genie-space, READ_ONLY for the GETs) is answered
\* 403 without any manager call, and a user at or above it is not refused.
C20_PermissionBeforeManager ==
    /\ req # NoReq =>
          IF Below(req.level, req.route)
          THEN req.status = 403 /\ req.calls = 0 /\ ~req.changed /\ store = req.before
          ELSE req.status # 403
    /\ post # NoPost =>
          IF Below(post.level, "create_data_product")
          THEN post.status = 403 /\ post.calls = 0 /\ store = post.before
          ELSE post.status # 403
    /\ (upc \in {"reading", "responded"} /\ uploaded = NoUpload) =>
          IF Below(ulevel, "upload_data_products")
          THEN /\ upc = "responded"
               /\ response.status = 403
               /\ managerCalls = 0
          ELSE response.status # 403
    /\ (uploaded # NoUpload \/ managerCalls > 0) => response.status # 403

\* C20 witness: a DELETE of a stored product by a READ_WRITE user was refused
\* and the product is still stored.
C20_Witness ==
    /\ req.route = "delete_data_product"
    /\ req.level = "READ_WRITE"
    /\ req.stored
    /\ req.status = 403
    /\ req.pathId \in store

====
